---- MODULE Spec2Model ----
(***************************************************************************)
(* The particle ensemble of PyHEADTAIL/particles_mb/particles.py: its      *)
(* coordinate arrays, identity and bucket tags, the slice-set cache, and   *)
(* the operations update, add, reorder, sort_for, split, merge (+),        *)
(* get_slices, clean_slices and extract_slices.                            *)
(*                                                                         *)
(* Arrays are sequences, indexed from 1 (numpy indexes from 0); an index   *)
(* array or permutation holds positions 1..n.  Ensembles are objects on a  *)
(* heap, so that "the ensemble itself" and "a new ensemble with the same   *)
(* content" differ.  Every array of an ensemble is owned by that ensemble: *)
(* update() stores array.copy(), boolean and index-array selection and     *)
(* np.concatenate build new arrays.                                        *)
(*                                                                         *)
(* Particles.__init__ reads the name bucket_id (line 79), which split()    *)
(* passes as a keyword; the model binds it as a constructor argument, and  *)
(* a caller that does not pass it gets some value of BucketIds.            *)
(***************************************************************************)
EXTENDS Integers, Sequences, FiniteSets, TLC

\* ---------------------------------------------------------------- bounds
\* largest macroparticlenumber given to a constructor
MaxN0 == 2
\* largest macroparticlenumber a merge may produce
MaxN == 2
\* coordinate values are 0..MaxVal
MaxVal == 1
\* heap slots for the ensembles a split / extract_slices returns
MaxParts == 3
\* largest beam the bunches are merged into
MaxBunchN == 4
\* largest ensemble that is reordered
MaxReorderN == 3
\* largest beam a space charge element tracks
MaxKickN == 2

Vals == 0..MaxVal
Names == {"x", "z"}
BucketIds == {1, 2}
Slicers == {"sA", "sB"}
StatsRequests == {"absent", "False", "True", "list"}
OptionValues == {"if_any", "always", "never", "sometimes"}

\* ------------------------------------------------------------- sequences
Range(s) == {s[i] : i \in 1..Len(s)}

\* all sequences of length n over S
SeqsOf(S, n) == [1..n -> S]

\* the bijections on 1..n, as index arrays
Perms(n) == {p \in [1..n -> 1..n] : \A i, j \in 1..n : p[i] = p[j] => i = j}

Inverse(p) == [i \in 1..Len(p) |-> CHOOSE j \in 1..Len(p) : p[j] = i]

\* numpy index-array selection: array[ix]
Take(array, ix) == [k \in 1..Len(ix) |-> array[ix[k]]]

RECURSIVE IndicesWhere(_, _)
\* np.where(flags)[0] for a boolean array given as the set of true positions
IndicesWhere(n, S) ==
    IF n = 0 THEN <<>>
    ELSE IF n \in S THEN Append(IndicesWhere(n - 1, S), n)
         ELSE IndicesWhere(n - 1, S)

\* numpy boolean-mask selection: array[tags == b]
MaskSelect(array, tags, b) ==
    Take(array, IndicesWhere(Len(tags), {i \in 1..Len(tags) : tags[i] = b}))

\* the emptied function: an ensemble with no coordinate / no cache entry
Empty == <<>>

\* --------------------------------------------------------------- objects
Beam == 1
Refs == 1..(MaxParts + 1)

NoEns ==
    [n |-> -1, id |-> <<>>, bucket_id |-> <<>>, coords |-> Empty,
     slice_sets |-> Empty, slice_info |-> "free"]

\* Particles.__init__ followed by nothing else: the fields before update()
NewFields(n, b) ==
    [n |-> n,
     id |-> [i \in 1..n |-> i],
     bucket_id |-> [i \in 1..n |-> 1 * b],
     coords |-> Empty,
     slice_sets |-> Empty,
     slice_info |-> "none"]

\* the assignments of update (lines 254-256)
assigned(e, d) ==
    [e EXCEPT !.coords = [c \in (DOMAIN e.coords) \cup (DOMAIN d) |->
                             IF c \in DOMAIN d THEN d[c] ELSE e.coords[c]]]

\* update testing the lengths after its assignments
update_assigning_first(e, d) ==
    IF \E c \in DOMAIN d : Len(d[c]) # e.n
    THEN [err |-> "ValueError:lengths", e |-> assigned(e, d)]
    ELSE [err |-> "ok", e |-> assigned(e, d)]

\* Particles.update: the length test comes before any assignment
update(e, d) ==
    IF \E c \in DOMAIN d : Len(d[c]) # e.n
    THEN [err |-> "ValueError:lengths", e |-> e]
    ELSE [err |-> "ok", e |-> assigned(e, d)]

\* Particles.__init__(macroparticlenumber, ..., coords_n_momenta_dict, bucket_id)
Particles(n, b, d) == update(NewFields(n, b), d)

\* add refusing a mapping only when every one of its names is tracked
add_unless_new_name(e, d) ==
    IF DOMAIN d # {} /\ \A s \in DOMAIN d : s \in DOMAIN e.coords
    THEN [err |-> "ValueError:exists", e |-> e]
    ELSE update(e, d)

\* Particles.add
add(e, d) ==
    IF \E s \in DOMAIN d : s \in DOMAIN e.coords
    THEN [err |-> "ValueError:exists", e |-> e]
    ELSE update(e, d)

\* Particles.clean_slices
clean_slices(e) == [e EXCEPT !.slice_sets = Empty]

\* pm.apply_permutation(array, permutation): array[permutation]
apply_permutation(array, permutation) == Take(array, permutation)

\* reorder over the tracked arrays only, id left in its order
reorder_leaving_id(e, permutation, except_for_attrs) ==
    clean_slices(
        [e EXCEPT
            !.coords = [c \in DOMAIN e.coords |->
                           IF c \in except_for_attrs THEN e.coords[c]
                           ELSE apply_permutation(e.coords[c], permutation)]])

\* Particles.reorder: id and every tracked array outside except_for_attrs
reorder(e, permutation, except_for_attrs) ==
    clean_slices(
        [e EXCEPT
            !.id = IF "id" \in except_for_attrs THEN e.id
                   ELSE apply_permutation(e.id, permutation),
            !.coords = [c \in DOMAIN e.coords |->
                           IF c \in except_for_attrs THEN e.coords[c]
                           ELSE apply_permutation(e.coords[c], permutation)]])

\* pm.argsort(array): the stable ascending sorting permutation
argsort(array) ==
    CHOOSE p \in Perms(Len(array)) :
        \A i, j \in 1..Len(array) :
            i < j => \/ array[p[i]] < array[p[j]]
                     \/ (array[p[i]] = array[p[j]] /\ p[i] < p[j])

\* Particles.sort_for
sort_for(e, attr) == reorder(e, argsort(e.coords[attr]), {})

\* ---------------------------------------------------------------- slicer
\* A slicer cuts z into n_slices unit bins starting at 0: sA has two bins,
\* sB one, sC three; a particle at or beyond the head cut lies outside the
\* cuts.
n_slices(slicer) == IF slicer = "sA" THEN 2 ELSE IF slicer = "sC" THEN 3 ELSE 1

Outside == -1

slice_index_of(slicer, z) == IF z < n_slices(slicer) THEN z ELSE Outside

Truthy(statistics) == statistics \in {"True", "list"}

NoSliceSet == [n_slices |-> -1, slice_index_of_particle |-> <<>>, statistics |-> ""]

\* Slicer.slice(beam, statistics=...): bins of the beam's current z; an absent
\* or False request attaches nothing
slice(slicer, e, statistics) ==
    [n_slices |-> n_slices(slicer),
     slice_index_of_particle |->
        [i \in 1..Len(e.coords["z"]) |-> slice_index_of(slicer, e.coords["z"][i])],
     statistics |-> IF Truthy(statistics) THEN statistics ELSE "none"]

\* SliceSet.particle_indices_of_slice(i)
particle_indices_of_slice(slices, i) ==
    IndicesWhere(Len(slices.slice_index_of_particle),
                 {k \in 1..Len(slices.slice_index_of_particle) :
                      slices.slice_index_of_particle[k] = i})

\* SliceSet.particles_outside_cuts
particles_outside_cuts(slices) == particle_indices_of_slice(slices, Outside)

\* lines 161-174 of get_slices, with the test of line 161 as `renew`: err,
\* the ensemble afterwards, the SliceSet returned and whether slicer.slice
\* was called
get_slices_if(e, slicer, statistics, renew) ==
    IF renew
    THEN IF "z" \notin DOMAIN e.coords
         THEN [err |-> "AttributeError", e |-> e, ret |-> NoSliceSet, called |-> TRUE]
         ELSE LET new == slice(slicer, e, statistics)
              IN  [err |-> "ok",
                   e |-> [e EXCEPT !.slice_sets =
                             [s \in (DOMAIN e.slice_sets) \cup {slicer} |->
                                 IF s = slicer THEN new ELSE e.slice_sets[s]]],
                   ret |-> new,
                   called |-> TRUE]
    ELSE [err |-> "ok", e |-> e, ret |-> e.slice_sets[slicer], called |-> FALSE]

\* get_slices renewing the SliceSet for any statistics keyword, False included
get_slices_on_keyword(e, slicer, statistics) ==
    get_slices_if(e, slicer, statistics,
                  slicer \notin DOMAIN e.slice_sets \/ statistics # "absent")

\* Particles.get_slices
get_slices(e, slicer, statistics) ==
    get_slices_if(e, slicer, statistics,
                  slicer \notin DOMAIN e.slice_sets \/ Truthy(statistics))

\* ------------------------------------------------------- split and merge
\* key=lambda x: x.bucket_id[0]
sort_key(x) == x.bucket_id[1]

RECURSIVE sorted_reverse(_)
\* sorted(bunches_list, key=..., reverse=True): stable, descending
sorted_reverse(list) ==
    IF list = <<>> THEN <<>>
    ELSE LET h == Head(list)
             rest == sorted_reverse(Tail(list))
             before == {k \in 1..Len(rest) : sort_key(rest[k]) > sort_key(h)}
             m == Cardinality(before)
         IN  SubSeq(rest, 1, m) \o <<h>> \o SubSeq(rest, m + 1, Len(rest))

\* lines 276-288 of split: ids_order is the order in which set(self.bucket_id)
\* is iterated, self |-> TRUE stands for the list [self], and the list is in
\* iteration order
split_unsorted(e, ids_order) ==
    IF Cardinality(Range(e.bucket_id)) = 1
    THEN [err |-> "ok", self |-> TRUE, list |-> <<>>]
    ELSE LET made == [k \in 1..Len(ids_order) |->
                        Particles(e.n \div Len(ids_order), ids_order[k],
                                  [c \in DOMAIN e.coords |->
                                      MaskSelect(e.coords[c], e.bucket_id, ids_order[k])])]
         IN  IF \E k \in 1..Len(ids_order) : made[k].err # "ok"
             THEN [err |-> "ValueError:lengths", self |-> FALSE, list |-> <<>>]
             ELSE [err |-> "ok", self |-> FALSE,
                   list |-> [k \in 1..Len(ids_order) |-> made[k].e]]

\* split listing the bunches in ascending bucket id
split_ascending(e, ids_order) ==
    LET made == split_unsorted(e, ids_order)
        down == sorted_reverse(made.list)
    IN  [made EXCEPT !.list = [k \in 1..Len(down) |-> down[Len(down) + 1 - k]]]

\* split handing back the ensemble itself for up to two bucket ids
split_self_up_to_two(e, ids_order) ==
    IF Cardinality(Range(e.bucket_id)) <= 2
    THEN [err |-> "ok", self |-> TRUE, list |-> <<>>]
    ELSE split_unsorted(e, ids_order)

\* Particles.split
split(e, ids_order) ==
    LET made == split_unsorted(e, ids_order)
    IN  [made EXCEPT !.list = sorted_reverse(made.list)]

\* Particles.__add__; b is what the constructor's bucket_id is bound to
\* (overwritten by the concatenation two lines later)
merge(self, other, b) ==
    IF \E c \in DOMAIN self.coords : c \notin DOMAIN other.coords
    THEN [err |-> "KeyError", e |-> NoEns]
    ELSE LET r == update(NewFields(self.n + other.n, b),
                         [c \in DOMAIN self.coords |->
                             self.coords[c] \o other.coords[c]])
         IN  IF r.err # "ok" THEN [err |-> r.err, e |-> NoEns]
             ELSE [err |-> "ok",
                   e |-> [r.e EXCEPT !.id = self.id \o other.id,
                                     !.bucket_id = self.bucket_id \o other.bucket_id]]

\* Particles.__radd__ with other == 0: a copy of self
radd_zero(self, b) ==
    LET r == update(NewFields(self.n, b), self.coords)
    IN  IF r.err # "ok" THEN [err |-> r.err, e |-> NoEns]
        ELSE [err |-> "ok",
              e |-> [r.e EXCEPT !.id = self.id, !.bucket_id = self.bucket_id]]

RECURSIVE sum_from(_, _, _, _)
\* sum(list): 0 + list[0] + list[1] + ...; acc is err/e of the sum so far
sum_from(acc, list, k, b) ==
    IF k > Len(list) \/ acc.err # "ok" THEN acc
    ELSE sum_from(merge(acc.e, list[k], b), list, k + 1, b)

sum(list, b) ==
    IF list = <<>> THEN [err |-> "zero", e |-> NoEns]
    ELSE sum_from(radd_zero(list[1], b), list, 2, b)

\* -------------------------------------------------------- extract_slices
\* `x is 'literal'`: true of the literal's own object only.  A string that
\* only equals the literal (built or read at run time) is another object.
Is(option, literal) == option.value = literal /\ option.interned

slice_info_of(i) ==
    IF i = 0 THEN "z_bin_0" ELSE IF i = 1 THEN "z_bin_1" ELSE "z_bin_n"

\* the sub-ensemble of the particles at ix (lines 207-218, 226-232)
slice_object(e, ix, info, b) ==
    LET new == Particles(Len(ix), b, Empty).e
        filled == update(new, [c \in DOMAIN e.coords |-> Take(e.coords[c], ix)]).e
    IN  [filled EXCEPT !.id = Take(e.id, ix), !.slice_info = info]

\* Particles.extract_slices: err, the ensemble afterwards (get_slices may
\* store a SliceSet), the list returned and whether the slicer was consulted
extract_slices(e, slicer, include_non_sliced, statistics, b) ==
    IF include_non_sliced.value \notin {"if_any", "always", "never"}
    THEN [err |-> "ValueError:option", e |-> e, list |-> <<>>, asked |-> FALSE]
    ELSE LET g == get_slices(e, slicer, statistics)
         IN  IF g.err # "ok"
             THEN [err |-> g.err, e |-> g.e, list |-> <<>>, asked |-> TRUE]
             ELSE LET slices == g.ret
                      binned == [i \in 1..slices.n_slices |->
                                    slice_object(e, particle_indices_of_slice(slices, i - 1),
                                                 slice_info_of(i - 1), b)]
                      ix == particles_outside_cuts(slices)
                      unsliced ==
                          IF ~Is(include_non_sliced, "never")
                             /\ (Len(ix) > 0 \/ Is(include_non_sliced, "always"))
                          THEN <<slice_object(e, ix, "unsliced", b)>>
                          ELSE <<>>
                  IN  [err |-> "ok", e |-> g.e, list |-> binned \o unsliced,
                       asked |-> TRUE]

\* ----------------------------------------------------------- space charge
\* beam.gamma, beam.charge_per_mp, beam.p0 and beam.beta * c of every beam, in
\* units in which the quotients of track are whole numbers
gamma == 2
charge_per_mp == 2
p0 == 1
beta_c == 1

\* the field values pic_solve may return for a particle: whole multiples of
\* gamma^2, so that en * gamma**-2 is exact
Fields == {0, gamma * gamma}

\* en *= beam.gamma**-2
boosted(en) == [i \in 1..Len(en) |-> en[i] \div (gamma * gamma)]

\* array += en * kick_factor
kicked(array, en, kick_factor) ==
    [i \in 1..Len(array) |-> array[i] + en[i] * kick_factor]

\* Particles.z_beamframe
z_beamframe(e) == [i \in 1..e.n |-> e.coords["z"][i] * gamma]

\* The solver's mesh: mesh_nx cells of width 1 along x, one cell along y and
\* mesh_nz cells of width gamma along the beam-frame z; positions beyond the
\* last cell count to the last cell.  Node ids run along x first.
mesh_nx == 2
mesh_nz == 2
n_nodes == mesh_nx * mesh_nz

cell(position, width, cells) ==
    IF position \div width < cells THEN position \div width ELSE cells - 1

\* mesh.get_node_ids(x, y)
get_node_ids_2d(x, y) == [i \in 1..Len(x) |-> cell(x[i], 1, mesh_nx)]

\* mesh.get_node_ids(x, y, z) of a mesh with nz cells of width dz along z
get_node_ids(x, y, z, dz, nz) ==
    [i \in 1..Len(x) |-> cell(x[i], 1, mesh_nx) + mesh_nx * cell(z[i], dz, nz)]

\* pm.arange(0, m, 1)
arange(m) == [k \in 1..m |-> k - 1]

RECURSIVE bisect(_, _, _, _, _)
\* the binary search of searchsorted within a[lo..hi), positions counted
\* from 0: where v is to be inserted, before (left) or after (right) the
\* elements equal to it
bisect(a, v, lo, hi, right) ==
    IF lo >= hi THEN lo
    ELSE LET mid == (lo + hi) \div 2
             up == IF right THEN a[mid + 1] <= v ELSE a[mid + 1] < v
         IN  IF up THEN bisect(a, v, mid + 1, hi, right)
             ELSE bisect(a, v, lo, mid, right)

\* pm.searchsortedleft(a, seq)
searchsortedleft(a, seq) ==
    [k \in 1..Len(seq) |-> bisect(a, seq[k], 0, Len(a), FALSE)]

\* pm.searchsortedright(a, seq)
searchsortedright(a, seq) ==
    [k \in 1..Len(seq) |-> bisect(a, seq[k], 0, Len(a), TRUE)]

\* bound tables whose upper bounds are searched like the lower ones
bounds_searched_left(ids) ==
    [ids |-> ids,
     lower_bounds |-> searchsortedleft(ids, arange(n_nodes)),
     upper_bounds |-> searchsortedleft(ids, arange(n_nodes))]

\* lines 83-91 and 177-182: the bound tables of the node ids, which are
\* kept with them
bounds_of(ids) ==
    [ids |-> ids,
     lower_bounds |-> searchsortedleft(ids, arange(n_nodes)),
     upper_bounds |-> searchsortedright(ids, arange(n_nodes))]

\* SpaceCharge25D.get_bounds(beam, mesh_2d, idx_relevant_particles)
get_bounds25D(e, idx_relevant_particles) ==
    bounds_of(get_node_ids_2d(Take(e.coords["x"], idx_relevant_particles),
                              Take(e.coords["y"], idx_relevant_particles)))

\* SpaceCharge3D.get_bounds(beam, mesh)
get_bounds3D(e) ==
    bounds_of(get_node_ids(e.coords["x"], e.coords["y"], z_beamframe(e),
                           gamma, mesh_nz))

\* SpaceCharge25D.align_particles(beam, mesh_3d): mesh_3d has one cell of
\* width 1 along z for each of the slicer's bins (_create_3d_mesh)
align_particles25D(e, slicer_n_slices) ==
    reorder(e, argsort(get_node_ids(e.coords["x"], e.coords["y"], e.coords["z"],
                                    1, slicer_n_slices)), {})

\* SpaceCharge3D.align_particles(beam, mesh)
align_particles3D(e) ==
    reorder(e, argsort(get_node_ids(e.coords["x"], e.coords["y"], z_beamframe(e),
                                    gamma, mesh_nz)), {})

\* no element: none was constructed, or the constructor raised
NoElement ==
    [kind |-> "none", slicer |-> "", length |-> 0, sort_particles |-> FALSE,
     dimension |-> 0]

\* A call track makes on a collaborator or on the beam, as it is logged:
\* slicer.slice, beam.reorder with its permutation, get_bounds with the
\* indices given and the tables returned, pic_solve with its arguments (the
\* tables if given) and its result, and the kick added for bin sid.
NoCall ==
    [fn |-> "", sid |-> -1, perm |-> <<>>, pids |-> <<>>, bounds |-> <<>>,
     x |-> <<>>, y |-> <<>>, z |-> <<>>, charge |-> 0, en |-> <<>>]

\* SpaceCharge3D.track with the kick factor of the 2.5D element and the
\* longitudinal component scaled like the transverse ones
track3D_as25D(e, slicer, length, sort_particles, result) ==
    LET sorted == IF sort_particles THEN align_particles3D(e) ELSE e
        bounds == IF sort_particles THEN <<get_bounds3D(sorted)>> ELSE <<>>
        kick_factor == ((length \div beta_c) * charge_per_mp * charge_per_mp) \div p0
    IN  [err |-> "ok",
         e |-> [sorted EXCEPT
                   !.coords["x"] = kicked(@, boosted(result.en_x), kick_factor),
                   !.coords["y"] = kicked(@, boosted(result.en_y), kick_factor),
                   !.coords["z"] = kicked(@, boosted(result.en_z), kick_factor)],
         calls |-> <<[NoCall EXCEPT !.fn = "slice"]>>
                   \o (IF sort_particles
                       THEN <<[NoCall EXCEPT !.fn = "reorder",
                                  !.perm = argsort(get_node_ids(e.coords["x"], e.coords["y"],
                                                                z_beamframe(e), gamma, mesh_nz))],
                              [NoCall EXCEPT !.fn = "get_bounds", !.bounds = bounds]>>
                       ELSE <<>>)
                   \o <<[NoCall EXCEPT !.fn = "pic_solve",
                             !.x = sorted.coords["x"], !.y = sorted.coords["y"],
                             !.z = z_beamframe(sorted), !.charge = charge_per_mp,
                             !.bounds = bounds, !.en = <<result>>],
                        [NoCall EXCEPT !.fn = "kick"]>>]

\* SpaceCharge3D.track; result is what pic_solve returns.  The beams tracked
\* hold x, y and z.
track3D(e, slicer, length, sort_particles, result) ==
    LET sliced == [NoCall EXCEPT !.fn = "slice"]
        sorted == IF sort_particles THEN align_particles3D(e) ELSE e
        aligned == IF sort_particles
                   THEN <<[NoCall EXCEPT !.fn = "reorder",
                              !.perm = argsort(get_node_ids(e.coords["x"], e.coords["y"],
                                                            z_beamframe(e), gamma, mesh_nz))]>>
                   ELSE <<>>
        bounds == IF sort_particles THEN <<get_bounds3D(sorted)>> ELSE <<>>
        bounded == IF sort_particles
                   THEN <<[NoCall EXCEPT !.fn = "get_bounds", !.bounds = bounds]>>
                   ELSE <<>>
        solved == [NoCall EXCEPT !.fn = "pic_solve",
                                 !.x = sorted.coords["x"], !.y = sorted.coords["y"],
                                 !.z = z_beamframe(sorted),
                                 !.charge = charge_per_mp, !.bounds = bounds,
                                 !.en = <<result>>]
        en_x == boosted(result.en_x)
        en_y == boosted(result.en_y)
        kick_factor == ((length \div beta_c) * charge_per_mp) \div p0
    IN  [err |-> "ok",
         e |-> [sorted EXCEPT !.coords["x"] = kicked(@, en_x, kick_factor),
                              !.coords["y"] = kicked(@, en_y, kick_factor),
                              !.coords["z"] = kicked(@, result.en_z, kick_factor)],
         calls |-> <<sliced>> \o aligned \o bounded
                       \o <<solved, [NoCall EXCEPT !.fn = "kick"]>>]

RECURSIVE solve_slices(_, _, _, _, _, _)
\* lines 107-124: the loop over the bins but the last, from bin sid on; acc
\* is err / e / calls so far, results what pic_solve returns bin by bin
solve_slices(acc, slices, sid, sort_particles, kick_factor, results) ==
    IF sid >= slices.n_slices - 1 \/ acc.err # "ok" THEN acc
    ELSE LET e == acc.e
             pids_of_slice == particle_indices_of_slice(slices, sid)
             bounds == IF sort_particles THEN <<get_bounds25D(e, pids_of_slice)>>
                       ELSE <<>>
             bounded == IF sort_particles
                        THEN <<[NoCall EXCEPT !.fn = "get_bounds", !.sid = sid,
                                              !.pids = pids_of_slice, !.bounds = bounds]>>
                        ELSE <<>>
             solved == [NoCall EXCEPT !.fn = "pic_solve", !.sid = sid,
                                      !.x = e.coords["x"], !.y = e.coords["y"],
                                      !.charge = charge_per_mp, !.bounds = bounds,
                                      !.en = <<results[sid + 1]>>]
             en_x == boosted(results[sid + 1].en_x)
             en_y == boosted(results[sid + 1].en_y)
             calls == acc.calls \o bounded \o <<solved>>
         IN  IF "dx" \notin DOMAIN e.coords
             THEN [err |-> "AttributeError", e |-> e, calls |-> calls]
             ELSE LET e1 == [e EXCEPT !.coords["dx"] = kicked(@, en_x, kick_factor)]
                  IN  IF "dy" \notin DOMAIN e.coords
                      THEN [err |-> "AttributeError", e |-> e1, calls |-> calls]
                      ELSE solve_slices(
                               [err |-> "ok",
                                e |-> [e1 EXCEPT !.coords["dy"] = kicked(@, en_y, kick_factor)],
                                calls |-> calls \o <<[NoCall EXCEPT !.fn = "kick", !.sid = sid]>>],
                               slices, sid + 1, sort_particles, kick_factor, results)

\* SpaceCharge25D.track with the loop starting at the second bin
track25D_from_second_bin(e, slicer, length, sort_particles, results) ==
    LET slices == slice(slicer, e, "absent")
        sorted == IF sort_particles THEN align_particles25D(e, slices.n_slices) ELSE e
        aligned == IF sort_particles
                   THEN <<[NoCall EXCEPT !.fn = "reorder",
                              !.perm = argsort(get_node_ids(e.coords["x"], e.coords["y"],
                                                            e.coords["z"], 1, slices.n_slices))]>>
                   ELSE <<>>
        kick_factor == ((length \div beta_c) * charge_per_mp * charge_per_mp) \div p0
    IN  solve_slices([err |-> "ok", e |-> sorted,
                      calls |-> <<[NoCall EXCEPT !.fn = "slice"]>> \o aligned],
                     slices, 1, sort_particles, kick_factor, results)

\* SpaceCharge25D.track
track25D(e, slicer, length, sort_particles, results) ==
    LET slices == slice(slicer, e, "absent")
        sorted == IF sort_particles THEN align_particles25D(e, slices.n_slices) ELSE e
        aligned == IF sort_particles
                   THEN <<[NoCall EXCEPT !.fn = "reorder",
                              !.perm = argsort(get_node_ids(e.coords["x"], e.coords["y"],
                                                            e.coords["z"], 1, slices.n_slices))]>>
                   ELSE <<>>
        kick_factor == ((length \div beta_c) * charge_per_mp * charge_per_mp) \div p0
    IN  solve_slices([err |-> "ok", e |-> sorted,
                      calls |-> <<[NoCall EXCEPT !.fn = "slice"]>> \o aligned],
                     slices, 0, sort_particles, kick_factor, results)

\* SpaceCharge25D.__init__ without the test of the mesh
SpaceCharge25D_any_mesh(slicer, length, sort_particles, dimension) ==
    [err |-> "ok",
     obj |-> [kind |-> "25D", slicer |-> slicer, length |-> length,
              sort_particles |-> sort_particles, dimension |-> dimension]]

\* SpaceCharge25D.__init__: the object, unless the mesh is not 3-dimensional
SpaceCharge25D(slicer, length, sort_particles, dimension) ==
    IF dimension # 3
    THEN [err |-> "RuntimeError", obj |-> NoElement]
    ELSE [err |-> "ok",
          obj |-> [kind |-> "25D", slicer |-> slicer, length |-> length,
                   sort_particles |-> sort_particles, dimension |-> dimension]]

\* SpaceCharge3D.__init__
SpaceCharge3D(slicer, length, sort_particles, dimension) ==
    IF dimension # 3
    THEN [err |-> "RuntimeError", obj |-> NoElement]
    ELSE [err |-> "ok",
          obj |-> [kind |-> "3D", slicer |-> slicer, length |-> length,
                   sort_particles |-> sort_particles, dimension |-> dimension]]

\* ----------------------------------------------------------------- state
\* heap:   the ensemble objects; heap[Beam] is the ensemble the driver works
\*         on, the other slots hold what the last split / extract_slices made
\* parts:  the list the last split / extract_slices returned, as references
\* merged: the result of summing that list
\* last:   the last call, its arguments and its outcome
\* element: the space charge element the driver has constructed, if any
VARIABLES heap, parts, merged, last, element

vars == <<heap, parts, merged, last, element>>

NoOption == [value |-> "", interned |-> TRUE]

NoLast ==
    [op |-> "init", outcome |-> "ok", d |-> Empty,
     slicer |-> "", statistics |-> "", had |-> FALSE, called |-> FALSE,
     ret |-> NoSliceSet, perm |-> <<>>, except |-> {}, pre |-> NoEns,
     option |-> NoOption, other |-> NoEns, target |-> 0, from |-> "",
     calls |-> <<>>]

\* the arrays a caller may hand over: every array of the right length, and
\* one that is one element too long
InputArrays(n) == SeqsOf(Vals, n) \cup {[i \in 1..(n + 1) |-> 0]}

\* the mappings name -> array over the names NS
Dicts(NS, n) == UNION {[S -> InputArrays(n)] : S \in SUBSET NS}

\* include_non_sliced: a value, and whether the string passed is the very
\* object of the literal in particles.py (it matters for 'always' and 'never')
Options ==
    {o \in [value : OptionValues, interned : BOOLEAN] :
        o.value \in {"if_any", "sometimes"} => o.interned}

\* what bucket_id is bound to in a constructor call whose result has its
\* bucket_id array replaced right away (__add__, __radd__)
AnyBucket == CHOOSE b \in BucketIds : TRUE

\* the ensembles a constructor call can return (a raising call returns none)
Constructed(NS, sizes, buckets) ==
    UNION {{Particles(n, b, d).e :
                b \in buckets,
                d \in {dd \in Dicts(NS, n) : Particles(n, 0, dd).err = "ok"}} :
           n \in sizes}

\* the heap holding e as the beam and list in the slots after it
HeapOf(e, list) ==
    [r \in Refs |-> IF r = Beam THEN e
                    ELSE IF r - 1 <= Len(list) THEN list[r - 1] ELSE NoEns]

InitOver(ensembles) ==
    /\ \E e \in ensembles : heap = HeapOf(e, <<>>)
    /\ parts = <<>>
    /\ merged = NoEns
    /\ last = NoLast
    /\ element = NoElement

Update(NS) ==
    \E d \in Dicts(NS, heap[Beam].n) :
        LET r == update(heap[Beam], d)
        IN  /\ heap' = HeapOf(r.e, <<>>)
            /\ parts' = <<>>
            /\ merged' = NoEns
            /\ UNCHANGED element
            /\ last' = [NoLast EXCEPT !.op = "update", !.outcome = r.err, !.d = d]

Add(NS) ==
    \E d \in Dicts(NS, heap[Beam].n) :
        LET r == add(heap[Beam], d)
        IN  /\ heap' = HeapOf(r.e, <<>>)
            /\ parts' = <<>>
            /\ merged' = NoEns
            /\ UNCHANGED element
            /\ last' = [NoLast EXCEPT !.op = "add", !.outcome = r.err, !.d = d]

Reorder(NS) ==
    \E p \in Perms(heap[Beam].n), ex \in SUBSET (NS \cup {"id"}) :
        /\ heap' = HeapOf(reorder(heap[Beam], p, ex), <<>>)
        /\ parts' = <<>>
        /\ merged' = NoEns
        /\ UNCHANGED element
        /\ last' = [NoLast EXCEPT !.op = "reorder", !.perm = p, !.except = ex,
                                  !.pre = clean_slices(heap[Beam])]

SortFor ==
    \E attr \in DOMAIN heap[Beam].coords :
        /\ heap' = HeapOf(sort_for(heap[Beam], attr), <<>>)
        /\ parts' = <<>>
        /\ merged' = NoEns
        /\ UNCHANGED element
        /\ last' = [NoLast EXCEPT !.op = "sort_for"]

CleanSlices ==
    /\ heap' = HeapOf(clean_slices(heap[Beam]), <<>>)
    /\ parts' = <<>>
    /\ merged' = NoEns
    /\ UNCHANGED element
    /\ last' = [NoLast EXCEPT !.op = "clean_slices"]

GetSlices ==
    \E slicer \in Slicers, statistics \in StatsRequests :
        LET g == get_slices(heap[Beam], slicer, statistics)
        IN  /\ heap' = HeapOf(g.e, <<>>)
            /\ parts' = <<>>
            /\ merged' = NoEns
            /\ UNCHANGED element
            /\ last' = [NoLast EXCEPT !.op = "get_slices", !.outcome = g.err,
                                      !.slicer = slicer, !.statistics = statistics,
                                      !.had = (slicer \in DOMAIN heap[Beam].slice_sets),
                                      !.called = g.called, !.ret = g.ret]

ExtractSlices(SL, ST, B) ==
    \E slicer \in SL, statistics \in ST, option \in Options, b \in B :
        LET x == extract_slices(heap[Beam], slicer, option, statistics, b)
        IN  /\ heap' = HeapOf(x.e, x.list)
            /\ parts' = [k \in 1..Len(x.list) |-> k + 1]
            /\ merged' = NoEns
            /\ UNCHANGED element
            /\ last' = [NoLast EXCEPT !.op = "extract_slices", !.outcome = x.err,
                                      !.slicer = slicer, !.statistics = statistics,
                                      !.option = option, !.called = x.asked,
                                      !.had = (slicer \in DOMAIN heap[Beam].slice_sets)]

\* the orders in which a set can be iterated
Orders(S) == {o \in [1..Cardinality(S) -> S] : Range(o) = S}

Split ==
    \E o \in Orders(Range(heap[Beam].bucket_id)) :
        LET x == split(heap[Beam], o)
        IN  /\ heap' = HeapOf(heap[Beam], x.list)
            /\ parts' = IF x.self THEN <<Beam>>
                        ELSE [k \in 1..Len(x.list) |-> k + 1]
            /\ merged' = NoEns
            /\ UNCHANGED element
            /\ last' = [NoLast EXCEPT !.op = "split", !.outcome = x.err]

\* beam = beam + other, other a newly constructed ensemble
MergeOther(others, cap) ==
    \E other \in others :
        /\ heap[Beam].n + other.n <= cap
        /\ LET r == merge(heap[Beam], other, AnyBucket)
           IN  /\ heap' = HeapOf(IF r.err = "ok" THEN r.e ELSE heap[Beam], <<>>)
               /\ parts' = <<>>
               /\ merged' = NoEns
               /\ UNCHANGED element
               /\ last' = [NoLast EXCEPT !.op = "merge", !.outcome = r.err,
                                         !.other = other]

\* merged = sum(parts), straight after the split that returned parts
MergeParts ==
    /\ last.op = "split"
    /\ parts # <<>>
    /\ LET r == sum([k \in 1..Len(parts) |-> heap[parts[k]]], AnyBucket)
       IN  /\ merged' = r.e
           /\ last' = [NoLast EXCEPT !.op = "sum", !.outcome = r.err]
    /\ UNCHANGED <<heap, parts, element>>

\* array[i] = v in place, on the beam or on a returned ensemble, while the
\* returned list is held (as in pypic_spacecharge: beam.x += ...)
Poke ==
    /\ last.op \in {"split", "extract_slices"}
    /\ parts # <<>>
    /\ \E r \in {Beam} \cup Range(parts), v \in Vals :
       \E c \in DOMAIN heap[r].coords \cup {"id"}, i \in 1..heap[r].n :
        /\ heap' = [heap EXCEPT ![r] =
                        IF c = "id" THEN [@ EXCEPT !.id[i] = v + 1]
                        ELSE [@ EXCEPT !.coords[c][i] = v]]
        /\ last' = [NoLast EXCEPT !.op = "poke", !.target = r, !.from = last.op]
    /\ UNCHANGED <<parts, merged, element>>

\* the beams handed to a space charge element: x and z vary, y and the
\* momenta are fixed; a beam may hold arrays named dx and dy besides
KickBeams ==
    UNION {{Particles(n, AnyBucket,
                      [c \in {"x", "xp", "y", "yp", "z", "dp"} \cup extra |->
                          IF c = "x" THEN x
                          ELSE IF c = "z" THEN z
                          ELSE IF c = "xp" THEN [i \in 1..n |-> i]
                          ELSE IF c = "yp" THEN [i \in 1..n |-> 2 * i]
                          ELSE IF c = "dp" THEN [i \in 1..n |-> 3 * i]
                          ELSE [i \in 1..n |-> 0]]).e :
                x \in SeqsOf(Vals, n), z \in SeqsOf(Vals, n),
                extra \in {{}, {"dx", "dy"}}} :
           n \in 1..MaxKickN}

\* what pic_solve can return for n particles
SolverResults(n) ==
    [en_x : SeqsOf(Fields, n), en_y : SeqsOf(Fields, n), en_z : SeqsOf(Fields, n)]

\* element = SpaceCharge25D(...) or SpaceCharge3D(...); when the constructor
\* raises, the driver holds what it held
Construct(kinds, slicers, lengths) ==
    \E kind \in kinds, slicer \in slicers, length \in lengths,
       sort_particles \in BOOLEAN, dimension \in {2, 3} :
        LET r == IF kind = "3D"
                 THEN SpaceCharge3D(slicer, length, sort_particles, dimension)
                 ELSE SpaceCharge25D(slicer, length, sort_particles, dimension)
        IN  /\ element' = IF r.err = "ok" THEN r.obj ELSE element
            /\ last' = [NoLast EXCEPT !.op = "construct", !.outcome = r.err,
                                      !.from = kind, !.target = dimension]
            /\ UNCHANGED <<heap, parts, merged>>

\* the beam has not been kicked: the arrays a track adds to hold values of
\* Vals
Unkicked(e) ==
    \A c \in {"x", "y", "z", "dx", "dy"} \cap DOMAIN e.coords :
        \A i \in 1..e.n : e.coords[c][i] \in Vals

\* element.track(beam), element a SpaceCharge3D
Track3D ==
    /\ element.kind = "3D"
    /\ Unkicked(heap[Beam])
    /\ \E result \in SolverResults(heap[Beam].n) :
          LET r == track3D(heap[Beam], element.slicer, element.length,
                           element.sort_particles, result)
          IN  /\ heap' = HeapOf(r.e, <<>>)
              /\ last' = [NoLast EXCEPT !.op = "track", !.outcome = r.err,
                                        !.from = "3D", !.calls = r.calls]
    /\ parts' = <<>>
    /\ merged' = NoEns
    /\ UNCHANGED element

\* element.track(beam), element a SpaceCharge25D; en_z is no part of what
\* pic_solve(x, y) returns
Track25D ==
    /\ element.kind = "25D"
    /\ Unkicked(heap[Beam])
    /\ \E results \in [1..(n_slices(element.slicer) - 1) ->
                         {f \in SolverResults(heap[Beam].n) :
                              \A i \in 1..heap[Beam].n : f.en_z[i] = 0}] :
          LET r == track25D(heap[Beam], element.slicer, element.length,
                            element.sort_particles, results)
          IN  /\ heap' = HeapOf(r.e, <<>>)
              /\ last' = [NoLast EXCEPT !.op = "track", !.outcome = r.err,
                                        !.from = "25D", !.calls = r.calls]
    /\ parts' = <<>>
    /\ merged' = NoEns
    /\ UNCHANGED element

\* ---------------------------------------------------------- specifications
\* The whole interface, on ensembles with the one coordinate z.
EnsemblesZ == Constructed({"z"}, 0..MaxN0, BucketIds)

Init == InitOver(EnsemblesZ)

Next ==
    \/ Update({"z"})
    \/ Add({"z"})
    \/ Reorder({"z"})
    \/ SortFor
    \/ CleanSlices
    \/ ExtractSlices({"sB"}, {"absent"}, {1})
    \/ Split
    \/ MergeOther(EnsemblesZ, MaxN)
    \/ MergeParts
    \/ Poke

Spec == Init /\ [][Next]_vars

\* The slice-set cache: both slicers and every statistics request, between
\* the operations that replace or reorder z.
InitCache == InitOver(Constructed({"z"}, 1..MaxN0, {1}))

NextCache ==
    \/ Update({"z"})
    \/ Add({"z"})
    \/ Reorder({"z"})
    \/ SortFor
    \/ CleanSlices
    \/ GetSlices

SpecCache == InitCache /\ [][NextCache]_vars

\* update and add on two coordinate names.
InitNames == InitOver(Constructed(Names, 0..MaxN0, {1}))

NextNames ==
    \/ Update(Names)
    \/ Add(Names)
    \/ SortFor

SpecNames == InitNames /\ [][NextNames]_vars

\* reorder and sort_for on ensembles large enough for a permutation that is
\* not its own inverse.
InitReorder == InitOver(Constructed(Names, 2..MaxReorderN, {1}))

NextReorder ==
    \/ Reorder(Names)
    \/ SortFor

SpecReorder == InitReorder /\ [][NextReorder]_vars

\* extract_slices with both slicers and every option.
InitSlices == InitOver(Constructed({"z"}, 0..MaxN0, {1}))

NextSlices ==
    \/ Update({"z"})
    \/ CleanSlices
    \/ ExtractSlices(Slicers, {"absent"}, {1})

SpecSlices == InitSlices /\ [][NextSlices]_vars

\* Multi-bunch beams: bunches merged into a beam, sorted, split and summed.
BunchesX == Constructed({"x"}, 1..MaxN0, BucketIds)

InitBunches == InitOver(BunchesX)

NextBunches ==
    \/ MergeOther(BunchesX, MaxBunchN)
    \/ SortFor
    \/ Split
    \/ MergeParts

SpecBunches == InitBunches /\ [][NextBunches]_vars

\* The 3D space charge element: constructed, then tracking a beam.
InitKick == InitOver(KickBeams)

NextKick3D ==
    \/ Construct({"3D"}, {"sA"}, {1, 2})
    \/ Track3D

SpecKick3D == InitKick /\ [][NextKick3D]_vars

\* The 2.5D space charge element, with slicers of two and of three bins.
NextKick25D ==
    \/ Construct({"25D"}, {"sA", "sC"}, {1, 2})
    \/ Track25D

SpecKick25D == InitKick /\ [][NextKick25D]_vars

\* Both elements: constructed with meshes of 2 and of 3 dimensions, tracking.
NextKick ==
    \/ Construct({"25D", "3D"}, {"sA"}, {1})
    \/ Track3D
    \/ Track25D

SpecKick == InitKick /\ [][NextKick]_vars

\* The slice-set cache across a track: one-particle beams, get_slices
\* before and after the track of either element.
InitKickCache == InitOver({e \in KickBeams : e.n = 1})

NextKickCache ==
    \/ GetSlices
    \/ Construct({"25D", "3D"}, {"sA"}, {1})
    \/ Track3D
    \/ Track25D

SpecKickCache == InitKickCache /\ [][NextKickCache]_vars

\* Array lengths: every operation that makes or changes an ensemble, with
\* mappings of up to two names.
NextLengths ==
    \/ Update(Names)
    \/ Add({"z"})
    \/ Reorder({"z"})
    \/ ExtractSlices({"sB"}, {"absent"}, {1})
    \/ Split
    \/ MergeOther(EnsemblesZ, MaxN)

SpecLengths == Init /\ [][NextLengths]_vars

\* ------------------------------------------------------------------ claims
\* the last call replaced or reordered a coordinate array
ReplacedOrReordered ==
    /\ last.outcome = "ok"
    /\ \/ last.op \in {"reorder", "sort_for"}
       \/ (last.op \in {"update", "add"} /\ DOMAIN last.d # {})

\* C1: straight after every operation that replaces or reorders a coordinate
\* array (update, add, reorder, sort_for) the slice-set cache is empty.
C1_CacheEmptyAfterMutation ==
    ReplacedOrReordered => heap[Beam].slice_sets = Empty

\* C2: get_slices(slicer) calls slicer.slice, and stores what it returns
\* under that slicer, exactly when the slicer has no entry or the statistics
\* request is truthy; otherwise it returns the stored SliceSet and calls
\* nothing; the entries of the other slicers stay as they are either way.
C2_GetSlices ==
    [][last'.op = "get_slices" =>
        LET s == last'.slicer
            before == heap[Beam].slice_sets
            after == heap'[Beam].slice_sets
            fresh == [n_slices |-> n_slices(s),
                      slice_index_of_particle |->
                          [i \in 1..heap[Beam].n |->
                              slice_index_of(s, heap[Beam].coords["z"][i])],
                      statistics |-> IF last'.statistics \in {"True", "list"}
                                     THEN last'.statistics ELSE "none"]
        IN  /\ last'.called <=>
                   (s \notin DOMAIN before \/ last'.statistics \in {"True", "list"})
            /\ (last'.called /\ last'.outcome = "ok") =>
                   /\ s \in DOMAIN after
                   /\ after[s] = fresh
                   /\ last'.ret = fresh
            /\ ~last'.called =>
                   /\ last'.outcome = "ok"
                   /\ last'.ret = before[s]
                   /\ after = before
            /\ \A o \in Slicers \ {s} :
                   /\ o \in DOMAIN after <=> o \in DOMAIN before
                   /\ o \in DOMAIN before => after[o] = before[o]
    ]_vars

\* C2 witness: a get_slices with a False statistics request answered from
\* the cache, with a SliceSet that no longer matches z, while the other
\* slicer holds an entry too
C2_Witness ==
    /\ last.op = "get_slices"
    /\ last.statistics = "False"
    /\ last.had
    /\ ~last.called
    /\ DOMAIN heap[Beam].slice_sets = Slicers
    /\ last.ret # slice(last.slicer, heap[Beam], "absent")

\* the ensembles that exist: the beam, what the last split / extract_slices
\* returned, and the last sum
Live == {heap[r] : r \in {q \in Refs : heap[q] # NoEns}} \cup ({merged} \ {NoEns})

LengthsAgree(e) ==
    /\ Len(e.id) = e.n
    /\ Len(e.bucket_id) = e.n
    /\ \A c \in DOMAIN e.coords : Len(e.coords[c]) = e.n

\* C3: id, bucket_id and every tracked array of every ensemble have length
\* macroparticlenumber in every reachable state; an update raises the length
\* error exactly when its mapping holds an array of another length, and then
\* no array and no tracked name of the ensemble has changed.
C3_Lengths ==
    /\ [](\A e \in Live : LengthsAgree(e))
    /\ [][last'.op = "update" =>
            LET wrong == \E c \in DOMAIN last'.d : Len(last'.d[c]) # heap[Beam].n
            IN  /\ wrong <=> last'.outcome = "ValueError:lengths"
                /\ wrong => /\ heap'[Beam].coords = heap[Beam].coords
                            /\ heap'[Beam].id = heap[Beam].id
                            /\ heap'[Beam].bucket_id = heap[Beam].bucket_id
                            /\ heap'[Beam].n = heap[Beam].n
       ]_vars

\* C3 witness: an update naming x (not tracked before) with the right length
\* and z with a wrong one has raised, on a two-particle beam made by a merge
C3_Witness ==
    /\ last.op = "update"
    /\ last.outcome = "ValueError:lengths"
    /\ DOMAIN last.d = {"x", "z"}
    /\ Len(last.d["x"]) = heap[Beam].n
    /\ Len(last.d["z"]) # heap[Beam].n
    /\ DOMAIN heap[Beam].coords = {"z"}
    /\ heap[Beam].bucket_id = <<1, 2>>

\* C4: add raises the duplicate error, and changes no array and no tracked
\* name, whenever a name of its mapping is tracked already; otherwise its
\* outcome and its effect are those of update on the same mapping.
C4_Add ==
    [][last'.op = "add" =>
        LET dup == \E s \in DOMAIN last'.d : s \in DOMAIN heap[Beam].coords
            u == update(heap[Beam], last'.d)
        IN  /\ dup => /\ last'.outcome = "ValueError:exists"
                      /\ heap'[Beam] = heap[Beam]
            /\ ~dup => /\ last'.outcome = u.err
                       /\ heap'[Beam] = u.e
    ]_vars

\* C4 witness: an add of x and z has raised the duplicate error on an
\* ensemble that tracks z only, the array given for x having the right length
C4_Witness ==
    /\ last.op = "add"
    /\ last.outcome = "ValueError:exists"
    /\ DOMAIN last.d = {"x", "z"}
    /\ DOMAIN heap[Beam].coords = {"z"}
    /\ Len(last.d["x"]) = heap[Beam].n
    /\ heap[Beam].n = MaxN0

\* array a is array b taken at the positions P: a[k] = b[P[k]]
IsPermuted(a, b, P) == Len(a) = Len(b) /\ \A k \in 1..Len(a) : a[k] = b[P[k]]

\* C5: reorder(P, except_for) leaves id and every tracked array holding, at
\* each position k, what it held at position P[k], except the arrays named
\* in except_for, which stay as they were; a reorder(P) followed by a
\* reorder(inverse of P), neither with exceptions, brings id and every
\* tracked array back to what they were.
C5_Reorder ==
    [][last'.op = "reorder" =>
        LET P == last'.perm
            ex == last'.except
            pre == heap[Beam]
            post == heap'[Beam]
        IN  /\ IF "id" \in ex THEN post.id = pre.id
                ELSE IsPermuted(post.id, pre.id, P)
            /\ DOMAIN post.coords = DOMAIN pre.coords
            /\ \A c \in DOMAIN pre.coords :
                   IF c \in ex THEN post.coords[c] = pre.coords[c]
                   ELSE IsPermuted(post.coords[c], pre.coords[c], P)
            /\ (/\ last.op = "reorder"
                /\ last.except = {}
                /\ ex = {}
                /\ P = Inverse(last.perm))
               => /\ post.id = last.pre.id
                  /\ post.coords = last.pre.coords
    ]_vars

\* C5 witness: the reorder by <<3, 1, 2>>, the inverse of <<2, 3, 1>>, has
\* brought the ids <<2, 3, 1>> back to <<1, 2, 3>> and has changed x
C5_Witness ==
    /\ last.op = "reorder"
    /\ last.perm = <<3, 1, 2>>
    /\ last.except = {}
    /\ last.pre.id = <<2, 3, 1>>
    /\ heap[Beam].id = <<1, 2, 3>>
    /\ "x" \in DOMAIN heap[Beam].coords
    /\ heap[Beam].coords["x"] # last.pre.coords["x"]

\* the positions of e tagged with bucket id b
Tagged(e, b) == {i \in 1..e.n : e.bucket_id[i] = b}

\* every bucket id of e tags the same number of particles
EqualPopulations(e) ==
    \A a, b \in Range(e.bucket_id) :
        Cardinality(Tagged(e, a)) = Cardinality(Tagged(e, b))

C7_SplitMergeRoundTrip ==
    (last.op = "sum" /\ last.outcome = "ok" /\ EqualPopulations(heap[Beam])) =>
        /\ merged.n = heap[Beam].n
        /\ DOMAIN merged.coords = DOMAIN heap[Beam].coords
        /\ \E pi \in Perms(heap[Beam].n) :
               /\ \A i \in 1..merged.n : merged.id[i] = heap[Beam].id[pi[i]]
               /\ \A c \in DOMAIN merged.coords :
                      \A i \in 1..merged.n :
                          merged.coords[c][i] = heap[Beam].coords[c][pi[i]]

\* C8: a + b raises whenever the tracked names of a and of b differ, whether
\* the extra name is a's or b's; when they are the same the result has
\* a.macroparticlenumber + b.macroparticlenumber particles and its id,
\* bucket_id and every coordinate array are a's followed by b's.
C8_Merge ==
    [][last'.op = "merge" =>
        LET a == heap[Beam]
            b == last'.other
            r == heap'[Beam]
        IN  /\ DOMAIN a.coords # DOMAIN b.coords => last'.outcome # "ok"
            /\ DOMAIN a.coords = DOMAIN b.coords =>
                   /\ last'.outcome = "ok"
                   /\ r.n = a.n + b.n
                   /\ r.id = a.id \o b.id
                   /\ r.bucket_id = a.bucket_id \o b.bucket_id
                   /\ DOMAIN r.coords = DOMAIN a.coords
                   /\ \A c \in DOMAIN a.coords : r.coords[c] = a.coords[c] \o b.coords[c]
    ]_vars

\* the returned ensembles tagged 'unsliced', as positions of the list
UnslicedAt == {k \in 1..Len(parts) : heap[parts[k]].slice_info = "unsliced"}

\* C9: extract_slices with a value other than 'if_any', 'always', 'never'
\* raises without consulting the slicer and returns nothing; otherwise it
\* returns one ensemble per bin and then, as the last element only, the
\* ensemble tagged 'unsliced': never for 'never', always for 'always', and
\* for 'if_any' exactly when the SliceSet has particles outside the cuts.
C9_ExtractSlices ==
    last.op = "extract_slices" =>
        LET v == last.option.value
        IN  /\ v \notin {"if_any", "always", "never"} =>
                   /\ last.outcome = "ValueError:option"
                   /\ ~last.called
                   /\ parts = <<>>
            /\ (v \in {"if_any", "always", "never"} /\ last.outcome = "ok") =>
                   LET slices == heap[Beam].slice_sets[last.slicer]
                       outside == Len(particles_outside_cuts(slices))
                       wanted == \/ v = "always"
                                 \/ (v = "if_any" /\ outside > 0)
                   IN  /\ Len(parts) = slices.n_slices + (IF wanted THEN 1 ELSE 0)
                       /\ UnslicedAt = IF wanted THEN {Len(parts)} ELSE {}
                       /\ wanted => heap[parts[Len(parts)]].n = outside

\* C10: while the list returned by split or extract_slices is held, an
\* in-place change made through a returned ensemble changes nothing of the
\* parent, and one made through the parent changes nothing of any returned
\* ensemble, whatever the parent's bucket ids.
C10_NoSharedStorage ==
    [][last'.op = "poke" =>
        /\ last'.target \in Range(parts) => heap'[Beam] = heap[Beam]
        /\ last'.target = Beam =>
               \A k \in 1..Len(parts) : heap'[parts[k]] = heap[parts[k]]
    ]_vars

\* the list held came from extract_slices, or from split on a beam with
\* other than one bucket id
NewEnsemblesReturned ==
    \/ last.op = "extract_slices"
    \/ (last.op = "split" /\ Cardinality(Range(heap[Beam].bucket_id)) # 1)

\* C10, amended: the ensembles returned by extract_slices, and by split on a
\* beam with at least two bucket ids, share nothing with the parent: an
\* in-place change on either side leaves the other as it was.  split on a
\* beam with one bucket id returns the beam itself.
C10_NoSharedStorageUnlessSelf ==
    [][/\ (last'.op = "poke" /\ NewEnsemblesReturned) =>
            /\ Beam \notin Range(parts)
            /\ last'.target \in Range(parts) => heap'[Beam] = heap[Beam]
            /\ last'.target = Beam =>
                   \A k \in 1..Len(parts) : heap'[parts[k]] = heap[parts[k]]
       /\ (last'.op = "split" /\ Cardinality(Range(heap[Beam].bucket_id)) = 1) =>
            parts' = <<Beam>>
    ]_vars

\* C10 witness: after a split into two bunches, z of the first bunch has been
\* changed in place and no longer is what the beam holds for that bucket
C10_Witness ==
    /\ last.op = "poke"
    /\ last.from = "split"
    /\ Len(parts) = 2
    /\ last.target = parts[1]
    /\ "z" \in DOMAIN heap[Beam].coords
    /\ heap[parts[1]].coords["z"]
           # MaskSelect(heap[Beam].coords["z"], heap[Beam].bucket_id,
                        heap[parts[1]].bucket_id[1])

IsSorted(a) == \A i \in 1..(Len(a) - 1) : a[i] <= a[i + 1]

RECURSIVE SumOf(_)
SumOf(a) == IF a = <<>> THEN 0 ELSE Head(a) + SumOf(Tail(a))

\* the tables b.lower_bounds / b.upper_bounds (positions counted from 0)
\* cut the n particles with node ids b.ids into one range per cell
CutsIntoCells(b) ==
    LET n == Len(b.ids)
        lower == b.lower_bounds
        upper == b.upper_bounds
    IN  /\ Len(lower) = n_nodes
        /\ Len(upper) = n_nodes
        /\ \A c \in 1..n_nodes :
               /\ lower[c] <= upper[c]
               /\ \A i \in lower[c]..(upper[c] - 1) : b.ids[i + 1] = c - 1
               /\ (\A i \in 1..n : b.ids[i] # c - 1) => lower[c] = upper[c]
        /\ lower[1] = 0
        /\ \A c \in 1..(n_nodes - 1) : upper[c] = lower[c + 1]
        /\ upper[n_nodes] = n
        /\ SumOf([c \in 1..n_nodes |-> upper[c] - lower[c]]) = n

IsSolve(call) == call.fn = "pic_solve"

\* the pic_solve calls of the last track, in their order
Solves(calls) == SelectSeq(calls, IsSolve)

RECURSIVE KickSum(_, _, _, _, _)
\* what the solver results from the k-th on add up to for particle i:
\* component comp of each, divided by gamma^2 when boost is set, times
\* kick_factor
KickSum(solves, k, comp, i, m) ==
    IF k > Len(solves) THEN 0
    ELSE (IF m.boost THEN solves[k].en[1][comp][i] \div (gamma * gamma)
          ELSE solves[k].en[1][comp][i]) * m.kick_factor
         + KickSum(solves, k + 1, comp, i, m)

IsReorder(call) == call.fn = "reorder"

\* the order track has put the particles in: the permutation of its
\* reorder, or the order they were in
OrderOf(calls, n) ==
    IF SelectSeq(calls, IsReorder) = <<>> THEN [i \in 1..n |-> i]
    ELSE SelectSeq(calls, IsReorder)[1].perm

C15_NoStaleSliceSetAfterTrack ==
    (last.op = "track" /\ last.outcome = "ok") =>
        \A s \in DOMAIN heap[Beam].slice_sets :
            heap[Beam].slice_sets[s].slice_index_of_particle
                = slice(s, heap[Beam], "absent").slice_index_of_particle

RECURSIVE CallsFromBin(_, _, _)
\* function and bin of the calls the bins from sid on, but the last of n,
\* are to bring: the bound tables when sorting, the solver, the kick
CallsFromBin(sid, n, sort_particles) ==
    IF sid >= n - 1 THEN <<>>
    ELSE (IF sort_particles THEN << <<"get_bounds", sid>> >> ELSE <<>>)
         \o << <<"pic_solve", sid>>, <<"kick", sid>> >>
         \o CallsFromBin(sid + 1, n, sort_particles)

C17_IndicesFollowSort ==
    (last.op = "track" /\ last.from = "25D" /\ element.sort_particles) =>
        \A k \in 1..Len(last.calls) :
            last.calls[k].fn = "get_bounds" =>
                last.calls[k].pids
                    = particle_indices_of_slice(
                          slice(element.slicer, heap[Beam], "absent"),
                          last.calls[k].sid)

\* C18: a reorder or a sort_for of a beam holding more than one bucket id
\* leaves every particle with its bucket id: the beam afterwards is, in id
\* and bucket_id together, a rearrangement of the beam before.
C18_BucketIdFollowsParticle ==
    [][(/\ last'.op \in {"reorder", "sort_for"}
        /\ Cardinality(Range(heap[Beam].bucket_id)) > 1) =>
            \E P \in Perms(heap[Beam].n) :
                /\ IsPermuted(heap'[Beam].id, heap[Beam].id, P)
                /\ IsPermuted(heap'[Beam].bucket_id, heap[Beam].bucket_id, P)]_vars

====
